---- MODULE Spec2Model ----
(***************************************************************************)
(* A model of plasmoid/contents/code/yahoofinance.mjs: the three resolvers *)
(* resolveChart, resolveQuote and resolveProfile, the helper               *)
(* getRawValText, and the promise chain httpRequestP(url).then(callback)   *)
(* each resolver returns.                                                  *)
(*                                                                         *)
(* JavaScript values are tagged records.  A number is kept in fixed point, *)
(* Num(k) standing for k / 1000; text is a TLA+ string.  An expression     *)
(* that throws evaluates to Thrown(kind), and Thrown propagates through    *)
(* every operator that reads it, so that the first throw of a callback in  *)
(* source order is the failure of the call.                                *)
(***************************************************************************)
EXTENDS Integers, Sequences, FiniteSets, TLC

(***************************************************************************)
(* JavaScript values                                                       *)
(***************************************************************************)
Scale == 10 * 10 * 10

Undef == [t |-> "undefined"]
Null == [t |-> "null"]
NaN == [t |-> "number", nan |-> TRUE]
Inf(neg) == [t |-> "number", inf |-> TRUE, neg |-> neg]
Num(k) == [t |-> "number", n |-> k]
Whole(i) == Num(i * Scale)
Str(s) == [t |-> "string", s |-> s]
Obj(f) == [t |-> "object", f |-> f]
Arr(a) == [t |-> "array", a |-> a]
DateOf(ms) == [t |-> "date", ms |-> ms]
Thrown(kind) == [t |-> "throw", kind |-> kind]

IsThrown(v) == v.t = "throw"
IsFinite(v) == v.t = "number" /\ "n" \in DOMAIN v
IsNaN(v) == v.t = "number" /\ "nan" \in DOMAIN v
IsInf(v) == v.t = "number" /\ "inf" \in DOMAIN v
Nullish(v) == v.t \in {"undefined", "null"}

\* typeof v === "number"
TypeIsNumber(v) == v.t = "number"

\* ToBoolean(v), as used by `if (v)`, `v ? a : b` and `v || w`
Truthy(v) ==
    CASE v.t \in {"undefined", "null"} -> FALSE
      [] v.t = "string" -> v.s # ""
      [] v.t = "number" -> IF IsFinite(v) THEN v.n # 0 ELSE IsInf(v)
      [] OTHER -> TRUE

\* o.k : a property read throws on undefined and null, yields undefined for a
\* property the object does not have
Get(o, k) ==
    CASE IsThrown(o) -> o
      [] Nullish(o) -> Thrown("TypeError")
      [] o.t = "object" -> IF k \in DOMAIN o.f THEN o.f[k] ELSE Undef
      [] o.t = "array" -> IF k = "length" THEN Whole(Len(o.a)) ELSE Undef
      [] OTHER -> Undef

\* At with a bounds check: an index past the end throws
AtChecked(a, i) ==
    CASE IsThrown(a) -> a
      [] Nullish(a) -> Thrown("TypeError")
      [] a.t = "array" -> IF i + 1 \in DOMAIN a.a THEN a.a[i + 1] ELSE Thrown("RangeError")
      [] OTHER -> Undef

\* a[i] with i a zero-based index
At(a, i) ==
    CASE IsThrown(a) -> a
      [] Nullish(a) -> Thrown("TypeError")
      [] a.t = "array" -> IF i + 1 \in DOMAIN a.a THEN a.a[i + 1] ELSE Undef
      [] OTHER -> Undef

\* ToNumber(v) for the operand of an arithmetic operator
ToNumber(v) ==
    CASE IsThrown(v) -> v
      [] v.t = "number" -> v
      [] v.t = "null" -> Num(0)
      [] v.t = "string" -> IF v.s = "" THEN Num(0) ELSE NaN
      [] OTHER -> NaN

\* v * i for a positive integer literal i
MulInt(v, i) ==
    LET x == ToNumber(v) IN
    CASE IsThrown(x) -> x
      [] IsFinite(x) -> Num(x.n * i)
      [] OTHER -> x

\* a - b
Sub(a, b) ==
    LET x == ToNumber(a)
        y == ToNumber(b) IN
    CASE IsThrown(x) -> x
      [] IsThrown(y) -> y
      [] IsNaN(x) \/ IsNaN(y) -> NaN
      [] IsInf(x) /\ IsInf(y) -> IF x.neg = y.neg THEN NaN ELSE x
      [] IsInf(x) -> x
      [] IsInf(y) -> Inf(~y.neg)
      [] OTHER -> Num(x.n - y.n)

Abs(i) == IF i < 0 THEN -i ELSE i

\* round(p / q) for q > 0, p >= 0, the nearer integer, the larger at a tie
RoundDiv(p, q) == (2 * p + q) \div (2 * q)

\* a / b * 100, the result in fixed point rounded to the nearest unit
DivTimes100(a, b) ==
    LET x == ToNumber(a)
        y == ToNumber(b) IN
    CASE IsThrown(x) -> x
      [] IsThrown(y) -> y
      [] IsNaN(x) \/ IsNaN(y) -> NaN
      [] IsInf(x) /\ IsInf(y) -> NaN
      [] IsInf(x) -> Inf(x.neg # (y.n < 0))
      [] IsInf(y) -> Num(0)
      [] y.n = 0 -> IF x.n = 0 THEN NaN ELSE Inf(x.n < 0)
      [] OTHER ->
           LET mag == RoundDiv(Abs(x.n) * 100 * Scale, Abs(y.n)) IN
           Num(IF (x.n < 0) # (y.n < 0) THEN -mag ELSE mag)

(***************************************************************************)
(* Number.prototype.toFixed                                                *)
(***************************************************************************)
RECURSIVE Pow10(_)
Pow10(d) == IF d = 0 THEN 1 ELSE 10 * Pow10(d - 1)

\* the decimal digits of n, at least `width` of them (zero-padded on the left)
RECURSIVE Digits(_, _)
Digits(n, width) ==
    IF n < 10 /\ width <= 1
    THEN ToString(n)
    ELSE Digits(n \div 10, width - 1) \o ToString(n % 10)

\* k / 1000 is a binary fraction (exactly a double) iff 1000 / gcd(k, 1000) is
\* a power of two, i.e. iff k is a multiple of 125
ExactDouble(k) == k % 125 = 0

\* The integer n for which n / 10^d - |k| / 1000 is as close to zero as
\* possible, the larger n when there are two.  A tie in decimal is a tie of
\* the double only if the double is exact; the inputs of the model hold no
\* other ties (see TieFree).
FixedInteger(k, d) ==
    LET a == Abs(k) IN
    IF d >= 3
    THEN a * Pow10(d - 3)
    ELSE RoundDiv(a, Pow10(3 - d))

TieFree(k, d) ==
    d >= 3 \/ ExactDouble(k) \/ 2 * (Abs(k) % Pow10(3 - d)) # Pow10(3 - d)

\* ToIntegerOrInfinity(fractionDigits): undefined counts as 0
FractionDigits(decimals) ==
    LET x == ToNumber(decimals) IN
    CASE IsThrown(x) -> x
      [] IsFinite(x) -> IF x.n < 0 THEN Num(-(((-x.n) \div Scale) * Scale))
                        ELSE Num((x.n \div Scale) * Scale)
      [] IsNaN(x) -> Num(0)
      [] OTHER -> x

\* v.toFixed(decimals)
toFixed(v, decimals) ==
    LET f == FractionDigits(decimals) IN
    CASE IsThrown(v) -> v
      [] IsThrown(f) -> f
      [] Nullish(v) -> Thrown("TypeError")
      [] v.t # "number" -> Thrown("TypeError")
      [] ~IsFinite(f) -> Thrown("RangeError")
      [] f.n < 0 \/ f.n > 100 * Scale -> Thrown("RangeError")
      [] IsNaN(v) -> Str("NaN")
      [] IsInf(v) -> Str(IF v.neg THEN "-Infinity" ELSE "Infinity")
      [] OTHER ->
           LET d == f.n \div Scale
               n == FixedInteger(v.n, d)
               sign == IF v.n < 0 THEN "-" ELSE ""
               ip == Digits(n \div Pow10(d), 1)
           IN Str(IF d = 0
                  THEN sign \o ip
                  ELSE sign \o ip \o "." \o Digits(n % Pow10(d), d))

(***************************************************************************)
(* getRawValText                                                           *)
(***************************************************************************)
getRawValText(val, decimals) ==
    LET result == IF Truthy(val) THEN Get(val, "raw") ELSE Null IN
    CASE IsThrown(val) -> val
      [] ~TypeIsNumber(result) -> Null
      [] TypeIsNumber(decimals) -> toFixed(result, decimals)
      [] OTHER -> result

(***************************************************************************)
(* Object literals, promises and the console                              *)
(***************************************************************************)
\* The value of an object literal whose properties, in source order, are the
\* <<name, value>> pairs of `props`: evaluation stops at the first property
\* whose value throws; of two properties of one name the later one stays.
ObjectLiteral(props) ==
    LET thrown == {i \in DOMAIN props : IsThrown(props[i][2])}
        first == CHOOSE i \in thrown : \A j \in thrown : i <= j
        names == {props[i][1] : i \in DOMAIN props}
        last(k) == CHOOSE i \in DOMAIN props :
                     /\ props[i][1] = k
                     /\ \A j \in DOMAIN props : props[j][1] = k => j <= i
    IN IF thrown # {}
       THEN props[first][2]
       ELSE Obj([k \in names |-> props[last(k)][2]])

\* the first value of `steps` that throws, or `value` when none does
Sequentially(steps, value) ==
    LET thrown == {i \in DOMAIN steps : IsThrown(steps[i])}
        first == CHOOSE i \in thrown : \A j \in thrown : i <= j
    IN IF thrown # {} THEN steps[first] ELSE value

\* the text of an engine-made message (TypeError, RangeError, SyntaxError)
EngineText == [t |-> "enginetext"]

\* ErrorMessage with a message of the resolver's own
ErrorMessageFixed(v) == Str("Request failed")

\* String(v) for the argument of `new Error(v)`: an undefined argument
\* leaves the message empty
ErrorMessage(v) ==
    CASE v.t = "undefined" -> Str("")
      [] v.t = "string" -> v
      [] v.t = "null" -> Str("null")
      [] OTHER -> EngineText

Fulfilled(value) == [status |-> "fulfilled", value |-> value]
Rejected(name, message) ==
    [status |-> "rejected", name |-> name, message |-> message]
NoOutcome == [status |-> "pending"]

\* the outcome of a callback that evaluates to v
Settle(v) ==
    IF IsThrown(v) THEN Rejected(v.kind, EngineText) ELSE Fulfilled(v)

\* the outcome and the console output of one callback
Ran(outcome, log) == [outcome |-> outcome, log |-> log]

\* console.log(`Error while resolving ${symbol}:`, JSON.stringify(error))
ErrorLine(symbol, error) ==
    [level |-> "log", text |-> "Error while resolving " \o symbol \o ":",
     arg |-> error]

\* console.debug("number of timeseries", n)
CountLine(n) == [level |-> "debug", text |-> "number of timeseries", arg |-> n]

\* A response body is modelled by the JSON value it denotes, or by the fact
\* that it denotes none.
JsonText(doc) == [json |-> TRUE, doc |-> doc]
NotJson == [json |-> FALSE, doc |-> Undef]

\* JSON.parse(text)
JSONparse(text) == IF text.json THEN text.doc ELSE Thrown("SyntaxError")

\* symbol.startsWith(prefix)
startsWith(symbol, prefix) ==
    /\ Len(symbol) >= Len(prefix)
    /\ SubSeq(symbol, 1, Len(prefix)) = prefix

(***************************************************************************)
(* resolveChart                                                            *)
(***************************************************************************)
chartUrl(symbol, range, interval) ==
    "https://query1.finance.yahoo.com/v8/finance/chart/" \o symbol
        \o "?symbol=" \o symbol \o "&range=" \o range
        \o "&interval=" \o interval

\* chartBar that leaves the timestamp in seconds
chartBarSeconds(timestamp, idx, quote) ==
    ObjectLiteral(<<
        <<"timestamp", timestamp>>,
        <<"open", At(Get(quote, "open"), idx)>>,
        <<"close", At(Get(quote, "close"), idx)>>,
        <<"high", At(Get(quote, "high"), idx)>>,
        <<"low", At(Get(quote, "low"), idx)>>,
        <<"volume", At(Get(quote, "volume"), idx)>> >>)

\* one element of result.timestamp.map(...), idx zero-based
chartBar(timestamp, idx, quote) ==
    ObjectLiteral(<<
        <<"timestamp", MulInt(timestamp, 1000)>>,
        <<"open", At(Get(quote, "open"), idx)>>,
        <<"close", At(Get(quote, "close"), idx)>>,
        <<"high", At(Get(quote, "high"), idx)>>,
        <<"low", At(Get(quote, "low"), idx)>>,
        <<"volume", At(Get(quote, "volume"), idx)>> >>)

\* result.timestamp.map((timestamp, idx) => ({...}))
chartTimeseries(timestamps, quote) ==
    CASE IsThrown(timestamps) -> timestamps
      [] timestamps.t # "array" -> Thrown("TypeError")
      [] OTHER ->
           LET bars == [i \in DOMAIN timestamps.a |->
                          chartBar(timestamps.a[i], i - 1, quote)]
           IN Sequentially(bars, Arr(bars))

\* the callback of resolveChart, on the text the request resolved with
chartThen(symbol, text) ==
    LET resp == JSONparse(text)
        error == Get(Get(resp, "chart"), "error")
        result == At(Get(Get(resp, "chart"), "result"), 0)
        meta == Get(result, "meta")
        quote == At(Get(Get(result, "indicators"), "quote"), 0)
        count == Get(Get(result, "timestamp"), "length")
        regular == Get(Get(meta, "currentTradingPeriod"), "regular")
        change == Sub(Get(meta, "regularMarketPrice"), Get(meta, "previousClose"))
        record == ObjectLiteral(<<
            <<"symbol", Get(meta, "symbol")>>,
            <<"currency", Get(meta, "currency")>>,
            <<"instrument", Get(meta, "instrumentType")>>,
            <<"exchange", Get(meta, "exchangeName")>>,
            <<"currentPrice", Get(meta, "regularMarketPrice")>>,
            <<"previousClose", Get(meta, "previousClose")>>,
            <<"priceChange", change>>,
            <<"priceChangePercentage",
              toFixed(DivTimes100(change, Get(meta, "previousClose")), Whole(2))>>,
            <<"updatedDateTime", DateOf(MulInt(Get(meta, "regularMarketTime"), 1000))>>,
            <<"exchange", ObjectLiteral(<<
                <<"timezone", Get(meta, "timezone")>>,
                <<"timezoneName", Get(meta, "exchangeTimezoneName")>>,
                <<"tradingPeriod", ObjectLiteral(<<
                    <<"start", Get(regular, "start")>>,
                    <<"end", Get(regular, "end")>> >>)>> >>)>>,
            <<"timeseries", chartTimeseries(Get(result, "timestamp"), quote)>> >>)
    IN CASE IsThrown(error) -> Ran(Settle(error), <<>>)
         [] Truthy(error) ->
              Ran(Rejected("Error", ErrorMessage(Get(error, "description"))),
                  <<ErrorLine(symbol, error)>>)
         [] IsThrown(Sequentially(<<result, meta, quote, count>>, Undef)) ->
              Ran(Settle(Sequentially(<<result, meta, quote, count>>, Undef)), <<>>)
         [] OTHER -> Ran(Settle(record), <<CountLine(count)>>)

(***************************************************************************)
(* resolveQuote                                                            *)
(***************************************************************************)
\* c ? a : b
Cond(c, a, b) == IF IsThrown(c) THEN c ELSE IF Truthy(c) THEN a ELSE b

\* a || b
Or(a, b) == IF IsThrown(a) \/ Truthy(a) THEN a ELSE b

quoteUrl(symbol) ==
    "https://query1.finance.yahoo.com/v10/finance/quoteSummary/" \o symbol
        \o "?modules=price"

\* quoteDecimals that never looks at priceHint
quoteDecimalsDefault(priceResult) == Sequentially(<<Get(priceResult, "priceHint")>>, Whole(2))

\* priceResult.priceHint ? priceResult.priceHint.raw : 2
quoteDecimals(priceResult) ==
    Cond(Get(priceResult, "priceHint"),
         Get(Get(priceResult, "priceHint"), "raw"), Whole(2))

\* priceResult[guard] ? priceResult[field].raw.toFixed(decimals) : null
quoteFixed(priceResult, guard, field, decimals) ==
    Cond(Get(priceResult, guard),
         toFixed(Get(Get(priceResult, field), "raw"), decimals), Null)

\* priceResult[field] ? priceResult[field].raw : null
quoteRaw(priceResult, field) ==
    Cond(Get(priceResult, field), Get(Get(priceResult, field), "raw"), Null)

\* field ? (field.raw * 100).toFixed(2) : null
percentFixed(field) ==
    Cond(field, toFixed(MulInt(Get(field, "raw"), 100), Whole(2)), Null)

quoteRecord(priceResult, decimals) ==
    ObjectLiteral(<<
        <<"symbol", Get(priceResult, "symbol")>>,
        <<"currency", Get(priceResult, "currency")>>,
        <<"shortName", Get(priceResult, "shortName")>>,
        <<"longName", Or(Get(priceResult, "longName"), Get(priceResult, "shortName"))>>,
        <<"instrument", Get(priceResult, "quoteType")>>,
        <<"exchange", Get(priceResult, "exchange")>>,
        <<"exchangeName",
          Cond(Get(priceResult, "exchangeName"), Get(priceResult, "exchangeName"), Null)>>,
        <<"currentPrice",
          quoteFixed(priceResult, "regularMarketPrice", "regularMarketPrice", decimals)>>,
        <<"dayHighPrice",
          quoteFixed(priceResult, "regularMarketDayHigh", "regularMarketDayHigh", decimals)>>,
        <<"dayLowPrice",
          quoteFixed(priceResult, "regularMarketDayHigh", "regularMarketDayLow", decimals)>>,
        <<"openPrice",
          quoteFixed(priceResult, "regularMarketOpen", "regularMarketOpen", decimals)>>,
        <<"volume", quoteRaw(priceResult, "regularMarketVolume")>>,
        <<"updatedDateTime",
          DateOf(MulInt(Get(priceResult, "regularMarketTime"), 1000))>>,
        <<"priceChange",
          quoteFixed(priceResult, "regularMarketChange", "regularMarketChange", decimals)>>,
        <<"priceChangePercentage",
          percentFixed(Get(priceResult, "regularMarketChangePercent"))>>,
        <<"priceDecimals", decimals>>,
        <<"previousClose",
          quoteFixed(priceResult, "regularMarketPreviousClose",
                     "regularMarketPreviousClose", decimals)>>,
        <<"marketCap", quoteRaw(priceResult, "marketCap")>> >>)

\* the callback of resolveQuote, on the text the request resolved with
quoteThen(symbol, text) ==
    LET resp == JSONparse(text)
        error == Get(Get(resp, "quoteSummary"), "error")
        priceResult == Get(At(Get(Get(resp, "quoteSummary"), "result"), 0), "price")
        decimals == quoteDecimals(priceResult)
    IN CASE IsThrown(error) -> Ran(Settle(error), <<>>)
         [] Truthy(error) ->
              Ran(Rejected("Error", ErrorMessage(Get(error, "description"))),
                  <<ErrorLine(symbol, error)>>)
         [] OTHER ->
              Ran(Settle(Sequentially(<<priceResult, decimals>>,
                                      quoteRecord(priceResult, decimals))), <<>>)

(***************************************************************************)
(* resolveProfile                                                          *)
(***************************************************************************)
\* profileIsIndex that looks for the caret anywhere in the symbol
profileIsIndexAnywhere(symbol) ==
    \E i \in 1..Len(symbol) : SubSeq(symbol, i, i) = "^"

\* const isIndex = symbol.startsWith("^")
profileIsIndex(symbol) == startsWith(symbol, "^")

profileModules(isIndex) ==
    IF isIndex THEN "summaryDetail%2Ccomponents" ELSE "summaryProfile%2CsummaryDetail"

profileUrl(symbol, isIndex) ==
    "https://query1.finance.yahoo.com/v10/finance/quoteSummary/" \o symbol
        \o "?modules=" \o profileModules(isIndex)

\* detailResult.priceHint ? detailResult.priceHint.raw : 2
profileDecimals(detailResult) ==
    Cond(Get(detailResult, "priceHint"),
         Get(Get(detailResult, "priceHint"), "raw"), Whole(2))

\* field ? field.fmt : null
fmtOf(field) == Cond(field, Get(field, "fmt"), Null)

profileSummaryDetail(detailResult, decimals) ==
    ObjectLiteral(<<
        <<"currency", Get(detailResult, "currency")>>,
        <<"priceHistory", ObjectLiteral(<<
            <<"beta", getRawValText(Get(detailResult, "beta"), decimals)>>,
            <<"fiftyTwoWeekLow",
              getRawValText(Get(detailResult, "fiftyTwoWeekLow"), decimals)>>,
            <<"fiftyTwoWeekHigh",
              getRawValText(Get(detailResult, "fiftyTwoWeekHigh"), decimals)>>,
            <<"fiftyDayAverage",
              getRawValText(Get(detailResult, "fiftyDayAverage"), decimals)>>,
            <<"twoHundredDayAverage",
              getRawValText(Get(detailResult, "twoHundredDayAverage"), decimals)>> >>)>>,
        <<"dividend", ObjectLiteral(<<
            <<"rate", getRawValText(Get(detailResult, "dividendRate"), decimals)>>,
            <<"yield", percentFixed(Get(detailResult, "dividendYield"))>>,
            <<"exDate", fmtOf(Get(detailResult, "exDividendDate"))>>,
            <<"trailingAnnualRate",
              getRawValText(Get(detailResult, "trailingAnnualDividendRate"), decimals)>>,
            <<"trailingAnnualYield",
              percentFixed(Get(detailResult, "trailingAnnualDividendYield"))>> >>)>> >>)

\* String(v) inside a template literal or a string concatenation
TemplateText(v) ==
    CASE v.t = "string" -> v.s
      [] v.t = "undefined" -> "undefined"
      [] v.t = "null" -> "null"
      [] v.t = "number" /\ IsFinite(v) /\ v.n % Scale = 0 /\ v.n >= 0 ->
           Digits(v.n \div Scale, 1)
      [] OTHER -> "[object]"

\* the text of a template literal whose pieces, in order, are `parts`
RECURSIVE Joined(_)
Joined(parts) ==
    IF parts = <<>> THEN "" ELSE TemplateText(Head(parts)) \o Joined(Tail(parts))

Template(parts) == Sequentially(parts, Str(Joined(parts)))

profileSummaryProfile(profileResult) ==
    LET address2 == Cond(Get(profileResult, "address2"),
                         Template(<<Get(profileResult, "address2"), Str(", ")>>),
                         Str(""))
    IN ObjectLiteral(<<
        <<"address", Template(<<Get(profileResult, "address1"), Str(", "), address2,
                                Get(profileResult, "city"), Str(" "),
                                Get(profileResult, "zip"), Str(", "),
                                Get(profileResult, "country")>>)>>,
        <<"phone", Get(profileResult, "phone")>>,
        <<"website", Get(profileResult, "website")>>,
        <<"industry", Get(profileResult, "industry")>>,
        <<"sector", Get(profileResult, "sector")>>,
        <<"description", Get(profileResult, "longBusinessSummary")>>,
        <<"fullTimeEmployees", Get(profileResult, "fullTimeEmployees")>> >>)

\* let summaryProfile = null, components = null; if (isIndex) {...} else {...}
profileComponents(isIndex, result) ==
    IF isIndex THEN Get(Get(result, "components"), "components") ELSE Null

\* profileVariant that assembles summaryProfile on both branches
profileVariantAlways(isIndex, result) ==
    profileSummaryProfile(Get(result, "summaryProfile"))

profileVariant(isIndex, result) ==
    IF isIndex THEN Null ELSE profileSummaryProfile(Get(result, "summaryProfile"))

\* the callback of resolveProfile, on the text the request resolved with;
\* isIndex is the binding the callback closes over
profileThen(symbol, isIndex, text) ==
    LET resp == JSONparse(text)
        error == Get(Get(resp, "quoteSummary"), "error")
        result == At(Get(Get(resp, "quoteSummary"), "result"), 0)
        detailResult == Get(result, "summaryDetail")
        decimals == profileDecimals(detailResult)
        summaryDetail == profileSummaryDetail(detailResult, decimals)
        components == profileComponents(isIndex, result)
        summaryProfile == profileVariant(isIndex, result)
    IN CASE IsThrown(error) -> Ran(Settle(error), <<>>)
         [] Truthy(error) ->
              Ran(Rejected("Error", ErrorMessage(Get(error, "description"))),
                  <<ErrorLine(symbol, error)>>)
         [] OTHER ->
              Ran(Settle(Sequentially(
                    <<result, detailResult, decimals, summaryDetail,
                      components, summaryProfile>>,
                    ObjectLiteral(<<
                        <<"summaryProfile", summaryProfile>>,
                        <<"summaryDetail", summaryDetail>>,
                        <<"components", components>> >>))), <<>>)

(***************************************************************************)
(* Response bodies the fetch collaborator may deliver                      *)
(***************************************************************************)
MaxBars == 2

Descriptions == {"No data found, symbol may be delisted", ""}

\* the provider's error objects: with a description, and without one
ErrorEnvelopes ==
    {Obj([code |-> Str("Not Found"), description |-> Str(d)]) : d \in Descriptions}
        \cup {Obj([code |-> Str("Not Found")])}

\* bodies that are no provider envelope at all
BrokenTexts == {NotJson, JsonText(Null), JsonText(Obj(<<>>))}

chartMeta(previousClose, tradingPeriod) ==
    LET base == [symbol |-> Str("AAPL"), currency |-> Str("USD"),
                 instrumentType |-> Str("EQUITY"), exchangeName |-> Str("NMS"),
                 regularMarketPrice |-> Whole(105),
                 regularMarketTime |-> Whole(60),
                 timezone |-> Str("EDT"),
                 exchangeTimezoneName |-> Str("America/New_York")]
        close == IF previousClose = Undef THEN <<>>
                 ELSE [previousClose |-> previousClose]
        period == IF tradingPeriod
                  THEN [currentTradingPeriod |->
                          Obj([regular |-> Obj([start |-> Whole(30), end |-> Whole(150)])])]
                  ELSE <<>>
    IN Obj(base @@ close @@ period)

ChartMetas ==
    {chartMeta(pc, TRUE) : pc \in {Whole(100), Whole(0), Undef}}
        \cup {chartMeta(Whole(100), FALSE)}

BaseMeta == chartMeta(Whole(100), TRUE)

BarFields == <<"open", "close", "high", "low", "volume">>

BarTimes == {Whole(60), Whole(120)}

TimestampSeqs == UNION {[1..n -> BarTimes] : n \in 0..MaxBars}

\* the i-th value of the f-th parallel sequence: distinct for distinct (f, i)
BarValue(f, i) == Whole(10 * f + i)

\* The parallel sequences of a quote with n bars.  hole = <<f, how, i>> makes
\* the f-th sequence deviate at position i: a null element, a sequence that
\* stops before i, a missing sequence; hole = <<0, "", 0>> is no deviation.
chartQuote(n, hole) ==
    LET full(f) == [i \in 1..n |->
                      IF hole = <<f, "null", i>> THEN Null ELSE BarValue(f, i)]
        seq(f) == IF hole[1] = f /\ hole[2] = "short"
                  THEN [i \in 1..(hole[3] - 1) |-> full(f)[i]]
                  ELSE full(f)
        kept == {f \in DOMAIN BarFields : ~(hole[1] = f /\ hole[2] = "absent")}
    IN Obj([k \in {BarFields[f] : f \in kept} |->
              Arr(seq(CHOOSE f \in kept : BarFields[f] = k))])

NoHole == <<0, "", 0>>

Holes(n) ==
    {NoHole}
        \cup {<<f, how, i>> : f \in DOMAIN BarFields, how \in {"null", "short"}, i \in 1..n}
        \cup {<<f, "absent", 0>> : f \in DOMAIN BarFields}

chartPayload(meta, timestamps, quotes) ==
    Obj([meta |-> meta, timestamp |-> Arr(timestamps),
         indicators |-> Obj([quote |-> Arr(quotes)])])

chartDoc(error, result) == Obj([chart |-> Obj([error |-> error, result |-> result])])

BasePayload == chartPayload(BaseMeta, <<Whole(60)>>, <<chartQuote(1, NoHole)>>)

\* well-formed chart payloads: every timestamp sequence with every deviation
\* of the parallel sequences, and every meta
ChartPayloads ==
    UNION {{chartPayload(BaseMeta, ts, <<chartQuote(Len(ts), h)>>) :
              h \in Holes(Len(ts))} : ts \in TimestampSeqs}
        \cup {chartPayload(m, ts, <<chartQuote(Len(ts), NoHole)>>) :
                m \in ChartMetas, ts \in TimestampSeqs}
        \cup {chartPayload(BaseMeta, ts, <<>>) : ts \in TimestampSeqs}
        \cup {Obj([meta |-> BaseMeta,
                   indicators |-> Obj([quote |-> Arr(<<Obj(<<>>)>>)])])}

ChartDocs ==
    {chartDoc(Null, Arr(<<p>>)) : p \in ChartPayloads}
        \cup {chartDoc(e, r) : e \in ErrorEnvelopes,
                               r \in {Null, Arr(<<>>), Arr(<<BasePayload>>)}}
        \cup {chartDoc(Null, r) : r \in {Null, Arr(<<>>)}}
        \cup {Obj([chart |-> Obj([result |-> Arr(<<BasePayload>>)])])}

ChartTexts == {JsonText(d) : d \in ChartDocs} \cup BrokenTexts

MaxHint == 3

\* the provider's {raw, fmt} pair
RawValue(k) == Obj([raw |-> Num(k), fmt |-> Str("fmt")])

\* priceHint: not supplied, or supplied with a raw digit count
PriceHints == {Undef} \cup {Obj([raw |-> Whole(h), fmt |-> Str("fmt")]) : h \in 0..MaxHint}

\* what a degenerate {raw, fmt} field looks like: raw missing, raw a text,
\* raw null
Degenerate ==
    {Obj([fmt |-> Str("fmt")]), Obj([raw |-> Str("n/a"), fmt |-> Str("fmt")]),
     Obj([raw |-> Null])}

quoteSummaryDoc(error, result) ==
    Obj([quoteSummary |-> Obj([error |-> error, result |-> result])])

\* the {raw, fmt} fields of the price module and the raw value of each, in
\* thousandths
PriceFields ==
    <<"regularMarketPrice", "regularMarketDayHigh", "regularMarketDayLow",
      "regularMarketOpen", "regularMarketVolume", "regularMarketChange",
      "regularMarketChangePercent", "regularMarketPreviousClose", "marketCap">>

PriceRaws == <<123456, 124800, 122125, 123000, 54321000, -1250, -10, 124706, 987654000>>

PriceNames == [symbol |-> Str("AAPL"), currency |-> Str("USD"),
               shortName |-> Str("Apple Inc."), longName |-> Str("Apple Incorporated"),
               quoteType |-> Str("EQUITY"), exchange |-> Str("NMS"),
               exchangeName |-> Str("NasdaqGS"), regularMarketTime |-> Whole(120)]

\* The price module with the fields `present` of PriceFields supplied; other
\* (when not <<>>) is a <<field index, value>> pair that overrides one field.
pricePayload(names, hint, present, other) ==
    LET value(f) == IF other # <<>> /\ other[1] = f THEN other[2]
                    ELSE RawValue(PriceRaws[f])
        fields == [k \in {PriceFields[f] : f \in present} |->
                     value(CHOOSE f \in present : PriceFields[f] = k)]
        hinted == IF hint = Undef THEN <<>> ELSE [priceHint |-> hint]
    IN Obj(names @@ fields @@ hinted)

AllPrice == DOMAIN PriceFields

Without(rec, key) == [k \in DOMAIN rec \ {key} |-> rec[k]]

PricePayloads ==
    {pricePayload(PriceNames, h, present, <<>>) :
        h \in PriceHints, present \in SUBSET AllPrice}
        \cup {pricePayload(PriceNames, Undef, AllPrice, <<f, d>>) :
                f \in AllPrice, d \in Degenerate}
        \cup {pricePayload(PriceNames, d, AllPrice, <<>>) : d \in Degenerate}
        \cup {pricePayload(Without(PriceNames, k), Undef, AllPrice, <<>>) :
                k \in {"longName", "exchangeName"}}

QuoteDocs ==
    {quoteSummaryDoc(Null, Arr(<<Obj([price |-> p])>>)) : p \in PricePayloads}
        \cup {quoteSummaryDoc(e, r) :
                e \in ErrorEnvelopes,
                r \in {Null, Arr(<<>>),
                       Arr(<<Obj([price |-> pricePayload(PriceNames, Undef, AllPrice, <<>>)])>>)}}
        \cup {quoteSummaryDoc(Null, r) : r \in {Null, Arr(<<>>), Arr(<<Obj(<<>>)>>)}}

QuoteTexts == {JsonText(d) : d \in QuoteDocs} \cup BrokenTexts

\* the {raw, fmt} fields of the summaryDetail module and their raw values
DetailFields ==
    <<"beta", "fiftyTwoWeekLow", "fiftyTwoWeekHigh", "fiftyDayAverage",
      "twoHundredDayAverage", "dividendRate", "dividendYield", "exDividendDate",
      "trailingAnnualDividendRate", "trailingAnnualDividendYield">>

DetailRaws == <<1200, 100500, 150756, 130004, 125250, 880, 6, 1599000, 820, 7>>

AllDetail == DOMAIN DetailFields

\* The summaryDetail module; other (when not <<>>) is a <<field index, value>>
\* pair: the field is overridden, or left out when the value is Undef.
detailPayload(hint, other) ==
    LET kept == {f \in AllDetail : ~(other # <<>> /\ other[1] = f /\ other[2] = Undef)}
        value(f) == IF other # <<>> /\ other[1] = f THEN other[2]
                    ELSE RawValue(DetailRaws[f])
        fields == [k \in {DetailFields[f] : f \in kept} |->
                     value(CHOOSE f \in kept : DetailFields[f] = k)]
        hinted == IF hint = Undef THEN <<>> ELSE [priceHint |-> hint]
    IN Obj([currency |-> Str("USD")] @@ fields @@ hinted)

BaseDetail == detailPayload(Undef, <<>>)

DetailPayloads ==
    {detailPayload(h, <<>>) : h \in PriceHints}
        \cup {detailPayload(h, <<f, d>>) :
                h \in PriceHints, f \in AllDetail, d \in Degenerate \cup {Undef}}
        \cup {detailPayload(d, <<>>) : d \in Degenerate}

\* components: the list, an empty list, null, or no `components` key
ComponentsModules ==
    {Obj([components |-> c]) :
        c \in {Arr(<<Str("AAPL"), Str("MSFT")>>), Arr(<<>>), Null}}
        \cup {Obj(<<>>)}

ProfileBase == [address1 |-> Str("1 Main St"), address2 |-> Str("Suite 2"),
                city |-> Str("Springfield"), zip |-> Str("00000"),
                country |-> Str("USA"), phone |-> Str("555-0100"),
                website |-> Str("http://example.com"), industry |-> Str("Software"),
                sector |-> Str("Technology"), longBusinessSummary |-> Str("Makes things."),
                fullTimeEmployees |-> Whole(100)]

ProfileModules == {Obj(ProfileBase), Obj(Without(ProfileBase, "address2"))}

\* the first element of quoteSummary.result: the modules the provider sent
\* (Undef: the module is not in the response)
profilePayload(detail, components, profile) ==
    Obj((IF detail = Undef THEN <<>> ELSE [summaryDetail |-> detail])
        @@ (IF components = Undef THEN <<>> ELSE [components |-> components])
        @@ (IF profile = Undef THEN <<>> ELSE [summaryProfile |-> profile]))

ProfilePayloads ==
    {profilePayload(d, Obj([components |-> Arr(<<Str("AAPL"), Str("MSFT")>>)]),
                    Obj(ProfileBase)) : d \in DetailPayloads}
        \cup {profilePayload(d, c, p) :
                d \in {BaseDetail, Undef},
                c \in ComponentsModules \cup {Undef},
                p \in ProfileModules \cup {Undef}}

ProfileDocs ==
    {quoteSummaryDoc(Null, Arr(<<p>>)) : p \in ProfilePayloads}
        \cup {quoteSummaryDoc(e, r) :
                e \in ErrorEnvelopes,
                r \in {Null, Arr(<<>>),
                       Arr(<<profilePayload(BaseDetail, Undef, Obj(ProfileBase))>>)}}
        \cup {quoteSummaryDoc(Null, r) : r \in {Null, Arr(<<>>)}}

ProfileTexts == {JsonText(d) : d \in ProfileDocs} \cup BrokenTexts

Symbols == {"AAPL", "^GSPC", "BRK^A"}

Ranges == {"1d"}

Intervals == {"5m"}

\* the bodies the provider's endpoint for `kind` may answer with
TextsFor(kind) ==
    CASE kind = "chart" -> ChartTexts
      [] kind = "quote" -> QuoteTexts
      [] kind = "profile" -> ProfileTexts
      [] OTHER -> {}

(***************************************************************************)
(* The calls in flight                                                     *)
(*                                                                         *)
(* The module keeps no state of its own: all there is are the calls the    *)
(* caller has made.  Of each call: where its promise chain stands (pc),    *)
(* its arguments, the `isIndex` binding resolveProfile's callback closes   *)
(* over, the URLs it has passed to httpRequestP (sent), what httpRequestP  *)
(* settled with (response), what the promise it returned settled with      *)
(* (outcome), and what it wrote to the console (log).                      *)
(***************************************************************************)
VARIABLES calls

vars == <<calls>>

NumCalls == 2

NoResponse == [got |-> "nothing"]
TextResponse(text) == [got |-> "text", text |-> text]
\* httpRequestP rejected: the transport's own failure
HttpFailure == Rejected("HttpError", EngineText)
FailedResponse == [got |-> "failure", reason |-> HttpFailure]

IdleCall ==
    [pc |-> "idle", kind |-> "", symbol |-> "", range |-> "", interval |-> "",
     isIndex |-> FALSE, sent |-> <<>>, response |-> NoResponse,
     outcome |-> NoOutcome, log |-> <<>>]

Init == calls = [c \in {1} |-> IdleCall]

InitConc == calls = [c \in 1..NumCalls |-> IdleCall]

\* resolveChart(symbol, range, interval), up to the request it issues
resolveChart(c, symbol, range, interval) ==
    /\ calls[c].pc = "idle"
    /\ calls' = [calls EXCEPT ![c] =
                   [@ EXCEPT !.pc = "pending", !.kind = "chart", !.symbol = symbol,
                             !.range = range, !.interval = interval,
                             !.sent = Append(@, chartUrl(symbol, range, interval))]]

\* resolveQuote(symbol), up to the request it issues
resolveQuote(c, symbol) ==
    /\ calls[c].pc = "idle"
    /\ calls' = [calls EXCEPT ![c] =
                   [@ EXCEPT !.pc = "pending", !.kind = "quote", !.symbol = symbol,
                             !.sent = Append(@, quoteUrl(symbol))]]

\* resolveProfile(symbol), up to the request it issues
resolveProfile(c, symbol) ==
    /\ calls[c].pc = "idle"
    /\ calls' = [calls EXCEPT ![c] =
                   [@ EXCEPT !.pc = "pending", !.kind = "profile", !.symbol = symbol,
                             !.isIndex = profileIsIndex(symbol),
                             !.sent = Append(@, profileUrl(symbol, profileIsIndex(symbol)))]]

\* httpRequestP's promise is fulfilled with the response body
httpFulfil(c, text) ==
    /\ calls[c].pc = "pending"
    /\ calls' = [calls EXCEPT ![c] =
                   [@ EXCEPT !.pc = "settled", !.response = TextResponse(text)]]

\* httpRequestP's promise is rejected
httpReject(c) ==
    /\ calls[c].pc = "pending"
    /\ calls' = [calls EXCEPT ![c] =
                   [@ EXCEPT !.pc = "settled", !.response = FailedResponse]]

\* Closure with bindings kept in one place for all calls: every callback
\* sees those of the last call started
SharedClosure(c) ==
    calls[CHOOSE d \in DOMAIN calls :
            /\ calls[d].pc # "idle"
            /\ \A e \in DOMAIN calls : calls[e].pc # "idle" => e <= d]

\* the bindings the callback of call c closes over
Closure(c) == calls[c]

\* what the callback of call c does with the text its request resolved with
thenRun(c, text) ==
    LET env == Closure(c) IN
    CASE calls[c].kind = "chart" -> chartThen(env.symbol, text)
      [] calls[c].kind = "quote" -> quoteThen(env.symbol, text)
      [] calls[c].kind = "profile" -> profileThen(env.symbol, env.isIndex, text)

\* .then(callback) on a fulfilled request: the callback runs
thenCallback(c) ==
    /\ calls[c].pc = "settled"
    /\ calls[c].response.got = "text"
    /\ LET ran == thenRun(c, calls[c].response.text) IN
       calls' = [calls EXCEPT ![c] =
                   [@ EXCEPT !.pc = "done", !.outcome = ran.outcome, !.log = ran.log]]

\* thenRejected with a recovery: the failure of the request is swallowed
thenRecovered(reason) == Fulfilled(Null)

\* what .then(callback), given no rejection handler, settles with when the
\* request was rejected with `reason`
thenRejected(reason) == reason

\* .then(callback) on a rejected request: the rejection passes through
thenPassThrough(c) ==
    /\ calls[c].pc = "settled"
    /\ calls[c].response.got = "failure"
    /\ calls' = [calls EXCEPT ![c] =
                   [@ EXCEPT !.pc = "done",
                             !.outcome = thenRejected(calls[c].response.reason)]]

Next ==
    \/ \E c \in DOMAIN calls, symbol \in Symbols, range \in Ranges, interval \in Intervals :
          resolveChart(c, symbol, range, interval)
    \/ \E c \in DOMAIN calls, symbol \in Symbols : resolveQuote(c, symbol)
    \/ \E c \in DOMAIN calls, symbol \in Symbols : resolveProfile(c, symbol)
    \/ \E c \in DOMAIN calls : \E text \in TextsFor(calls[c].kind) : httpFulfil(c, text)
    \/ \E c \in DOMAIN calls : httpReject(c)
    \/ \E c \in DOMAIN calls : thenCallback(c)
    \/ \E c \in DOMAIN calls : thenPassThrough(c)

Spec == Init /\ [][Next]_vars

(***************************************************************************)
(* Several calls in flight at once, each on one of a few bodies            *)
(***************************************************************************)
ConcSymbols == {"AAPL", "^GSPC"}

ConcTextsFor(kind) ==
    CASE kind = "chart" ->
           {JsonText(chartDoc(Null, Arr(<<BasePayload>>))),
            JsonText(chartDoc(CHOOSE e \in ErrorEnvelopes : TRUE, Null)), NotJson}
      [] kind = "quote" ->
           {JsonText(quoteSummaryDoc(Null,
              Arr(<<Obj([price |-> pricePayload(PriceNames, Undef, AllPrice, <<>>)])>>))),
            JsonText(quoteSummaryDoc(CHOOSE e \in ErrorEnvelopes : TRUE, Null)), NotJson}
      [] kind = "profile" ->
           {JsonText(quoteSummaryDoc(Null,
              Arr(<<profilePayload(BaseDetail,
                                   Obj([components |-> Arr(<<Str("AAPL"), Str("MSFT")>>)]),
                                   Obj(ProfileBase))>>))),
            JsonText(quoteSummaryDoc(CHOOSE e \in ErrorEnvelopes : TRUE, Null))}
      [] OTHER -> {}

NextConc ==
    \/ \E c \in DOMAIN calls, symbol \in ConcSymbols, range \in Ranges, interval \in Intervals :
          resolveChart(c, symbol, range, interval)
    \/ \E c \in DOMAIN calls, symbol \in ConcSymbols : resolveQuote(c, symbol)
    \/ \E c \in DOMAIN calls, symbol \in ConcSymbols : resolveProfile(c, symbol)
    \/ \E c \in DOMAIN calls : \E text \in ConcTextsFor(calls[c].kind) : httpFulfil(c, text)
    \/ \E c \in DOMAIN calls : httpReject(c)
    \/ \E c \in DOMAIN calls : thenCallback(c)
    \/ \E c \in DOMAIN calls : thenPassThrough(c)

SpecConc == InitConc /\ [][NextConc]_vars

(***************************************************************************)
(* Reading a call and its response, for the properties below               *)
(***************************************************************************)
Done(c) == calls[c].pc = "done"

\* the call's request resolved with a body that parses
Parsed(c) == calls[c].response.got = "text" /\ calls[c].response.text.json

Field(v, k) == IF v.t = "object" /\ k \in DOMAIN v.f THEN v.f[k] ELSE Undef

Container(c) ==
    Field(calls[c].response.text.doc,
          IF calls[c].kind = "chart" THEN "chart" ELSE "quoteSummary")

Envelope(c) == Field(Container(c), "error")

\* the error envelope is populated: an error object is there
Populated(c) == Parsed(c) /\ Envelope(c).t = "object"

\* the first element of `result`, Undef when there is none
Payload(c) ==
    LET result == Field(Container(c), "result") IN
    IF result.t = "array" /\ Len(result.a) >= 1 THEN result.a[1] ELSE Undef

Failed(c) == calls[c].outcome.status = "rejected"
Succeeded(c) == calls[c].outcome.status = "fulfilled"

\* a field of the record a successful call returned
Out(c, k) == Field(calls[c].outcome.value, k)

(***************************************************************************)
(* C1                                                                      *)
(***************************************************************************)
\* C1: for each of the three resolvers, a response whose error envelope
\* (chart.error, quoteSummary.error) is populated makes the call fail with
\* an Error whose message is the envelope's description, with no record,
\* whatever `result` holds (null, empty or a payload).
C1_ErrorEnvelopeFails ==
    \A c \in DOMAIN calls :
        Done(c) /\ Populated(c) =>
            /\ Failed(c)
            /\ calls[c].outcome.name = "Error"
            /\ "value" \notin DOMAIN calls[c].outcome
            /\ Field(Envelope(c), "description").t = "string" =>
                   calls[c].outcome.message = Field(Envelope(c), "description")

C1_Witness ==
    \E c \in DOMAIN calls :
        /\ Done(c) /\ Populated(c)
        /\ calls[c].kind = "profile"
        /\ Field(Container(c), "result") = Null
        /\ Failed(c)
        /\ calls[c].outcome.message = Str("No data found, symbol may be delisted")

(***************************************************************************)
(* C2                                                                      *)
(***************************************************************************)
RecordKeys(kind) ==
    CASE kind = "chart" ->
           {"symbol", "currency", "instrument", "exchange", "currentPrice",
            "previousClose", "priceChange", "priceChangePercentage",
            "updatedDateTime", "timeseries"}
      [] kind = "quote" ->
           {"symbol", "currency", "shortName", "longName", "instrument", "exchange",
            "exchangeName", "currentPrice", "dayHighPrice", "dayLowPrice", "openPrice",
            "volume", "updatedDateTime", "priceChange", "priceChangePercentage",
            "priceDecimals", "previousClose", "marketCap"}
      [] kind = "profile" -> {"summaryProfile", "summaryDetail", "components"}

\* the responses of an endpoint in which nothing is missing
CompleteTexts(kind) ==
    CASE kind = "chart" ->
           {JsonText(chartDoc(Null,
              Arr(<<chartPayload(chartMeta(pc, TRUE), ts, <<chartQuote(Len(ts), NoHole)>>)>>))) :
              pc \in {Whole(100), Whole(0), Undef}, ts \in TimestampSeqs}
      [] kind = "quote" ->
           {JsonText(quoteSummaryDoc(Null,
              Arr(<<Obj([price |-> pricePayload(PriceNames, h, AllPrice, <<>>)])>>))) :
              h \in PriceHints}
      [] kind = "profile" ->
           {JsonText(quoteSummaryDoc(Null,
              Arr(<<profilePayload(detailPayload(h, <<>>),
                                   Obj([components |-> Arr(<<Str("AAPL"), Str("MSFT")>>)]),
                                   Obj(ProfileBase))>>))) : h \in PriceHints}
      [] OTHER -> {}

C2_OneOutcome ==
    \A c \in DOMAIN calls :
        /\ Len(calls[c].sent) = IF calls[c].pc = "idle" THEN 0 ELSE 1
        /\ Done(c) <=> calls[c].outcome # NoOutcome
        /\ Done(c) =>
              /\ Failed(c) \/ Succeeded(c)
              /\ calls[c].response.got = "failure" =>
                     calls[c].outcome = calls[c].response.reason
              /\ calls[c].response.got = "text" /\ ~Parsed(c) =>
                     Failed(c) /\ calls[c].outcome.name = "SyntaxError"
              /\ Populated(c) => Failed(c)
              /\ Parsed(c) /\ Payload(c) = Undef => Failed(c)
              /\ Failed(c) => "value" \notin DOMAIN calls[c].outcome
              /\ Succeeded(c) =>
                     /\ calls[c].outcome.value.t = "object"
                     /\ DOMAIN calls[c].outcome.value.f = RecordKeys(calls[c].kind)
              /\ calls[c].response.got = "text"
                   /\ calls[c].response.text \in CompleteTexts(calls[c].kind)
                   => Succeeded(c)

C2_NoRetry ==
    \A c \in DOMAIN calls :
        /\ calls[c].sent # <<>> => calls'[c].sent = calls[c].sent
        /\ calls[c].outcome # NoOutcome => calls'[c].outcome = calls[c].outcome

\* C2: every call of a resolver passes exactly one URL to the fetch
\* collaborator and settles exactly once: with the fetch's failure, a parse
\* failure, the envelope's error or a missing-field failure (never a record
\* then, never a second request), and otherwise with one complete record.
C2_OneRequestOneOutcome == []C2_OneOutcome /\ [][C2_NoRetry]_vars

C2_Witness ==
    \E c \in DOMAIN calls :
        /\ Done(c)
        /\ calls[c].response.got = "failure"
        /\ Failed(c)
        /\ Len(calls[c].sent) = 1

(***************************************************************************)
(* C3, C9                                                                  *)
(***************************************************************************)
\* the element at zero-based index i of the parallel sequence `name` of the
\* response, Undef where the sequence has none
Parallel(c, name, i) ==
    LET quotes == Field(Field(Payload(c), "indicators"), "quote")
        seq == Field(quotes.a[1], name)
    IN IF i + 1 \in DOMAIN seq.a THEN seq.a[i + 1] ELSE Undef

\* C3: a chart call that returns a record returns as many bars as the
\* response has timestamps, in the same order; bar i carries timestamp i
\* times 1000 and the i-th element of each of open, close, high, low, volume.
C3_BarsZipTimestamps ==
    \A c \in DOMAIN calls :
        Done(c) /\ calls[c].kind = "chart" /\ Succeeded(c) =>
            LET stamps == Field(Payload(c), "timestamp").a
                bars == Out(c, "timeseries").a
            IN /\ Len(bars) = Len(stamps)
               /\ \A i \in DOMAIN stamps :
                     /\ Field(bars[i], "timestamp") = Num(stamps[i].n * 1000)
                     /\ \A f \in DOMAIN BarFields :
                           Field(bars[i], BarFields[f]) = Parallel(c, BarFields[f], i - 1)

C3_Witness ==
    \E c \in DOMAIN calls :
        /\ Done(c) /\ calls[c].kind = "chart" /\ Succeeded(c)
        /\ Field(Payload(c), "timestamp").a = <<Whole(120), Whole(60)>>
        /\ Len(Out(c, "timeseries").a) = 2
        /\ Field(Out(c, "timeseries").a[1], "timestamp") = Whole(120000)
        /\ Field(Out(c, "timeseries").a[2], "open") = BarValue(1, 2)

\* the response of call c is the chart of `stamps` whose parallel sequences
\* are all there and deviate as `hole` says
HoledChart(c, stamps, hole) ==
    /\ calls[c].kind = "chart"
    /\ calls[c].response.got = "text"
    /\ calls[c].response.text =
         JsonText(chartDoc(Null, Arr(<<chartPayload(BaseMeta, stamps,
                                        <<chartQuote(Len(stamps), hole)>>)>>)))

\* hole leaves position i of sequence f without a value
Emptied(hole, f, i) ==
    /\ hole[1] = f
    /\ \/ hole[2] = "null" /\ hole[3] = i
       \/ hole[2] = "short" /\ hole[3] <= i

\* C9: when one of the parallel sequences (each of them present) has no
\* value at a bar index, because the element is null or the sequence stops
\* short, the chart call still returns a record: that field of that bar is
\* null or undefined, and every other field of every bar has its value.
C9_MissingValueStaysLocal ==
    \A c \in DOMAIN calls :
        \A stamps \in TimestampSeqs :
            \A hole \in {h \in Holes(Len(stamps)) : h[2] \in {"null", "short"}} :
                Done(c) /\ HoledChart(c, stamps, hole) =>
                    /\ Succeeded(c)
                    /\ Len(Out(c, "timeseries").a) = Len(stamps)
                    /\ \A i \in DOMAIN stamps, f \in DOMAIN BarFields :
                          LET got == Field(Out(c, "timeseries").a[i], BarFields[f]) IN
                          IF Emptied(hole, f, i)
                          THEN Nullish(got)
                          ELSE got = BarValue(f, i)

C9_Witness ==
    \E c \in DOMAIN calls :
        /\ Done(c)
        /\ HoledChart(c, <<Whole(60), Whole(120)>>, <<5, "short", 2>>)
        /\ Succeeded(c)
        /\ Field(Out(c, "timeseries").a[2], "volume") = Undef
        /\ Field(Out(c, "timeseries").a[2], "low") = BarValue(4, 2)
        /\ Field(Out(c, "timeseries").a[1], "volume") = BarValue(5, 1)

(***************************************************************************)
(* C4, C5                                                                  *)
(***************************************************************************)
\* the symbol's first character is the caret
Careted(symbol) == Len(symbol) >= 1 /\ SubSeq(symbol, 1, 1) = "^"

\* a value is there: neither null nor undefined
Present(v) == ~Nullish(v)

ReturnedProfile(c) == Done(c) /\ calls[c].kind = "profile" /\ Succeeded(c)

\* C4: in a record resolveProfile returns, the symbol's first character
\* alone decides the variant: for a symbol starting with ^, summaryProfile
\* is null and components is the response's components.components just as
\* it came (absent stays absent); for any other symbol, components is null
\* and summaryProfile is an object.
C4_VariantBySymbolPrefix ==
    \A c \in DOMAIN calls :
        ReturnedProfile(c) =>
            IF Careted(calls[c].symbol)
            THEN /\ Out(c, "summaryProfile") = Null
                 /\ Out(c, "components")
                      = Field(Field(Payload(c), "components"), "components")
            ELSE /\ Out(c, "components") = Null
                 /\ Out(c, "summaryProfile").t = "object"

C4_Witness ==
    \E c \in DOMAIN calls :
        /\ ReturnedProfile(c)
        /\ calls[c].symbol = "^GSPC"
        /\ Field(Payload(c), "components") = Obj(<<>>)
        /\ Present(Field(Payload(c), "summaryProfile"))
        /\ Out(c, "components") = Undef
        /\ Out(c, "summaryProfile") = Null

\* C5 as claimed: exactly one of components and summaryProfile is populated,
\* the one of the symbol's branch, and the other is null.
C5_ExactlyOnePopulated ==
    \A c \in DOMAIN calls :
        ReturnedProfile(c) =>
            IF Careted(calls[c].symbol)
            THEN Present(Out(c, "components")) /\ Out(c, "summaryProfile") = Null
            ELSE Present(Out(c, "summaryProfile")) /\ Out(c, "components") = Null

\* C5 as amended: the field of the other branch is null, so at most one of
\* the two is populated; summaryProfile is populated for every symbol that
\* is no index, and components of an index is populated exactly when the
\* response carries a components list.
C5_AtMostOnePopulated ==
    \A c \in DOMAIN calls :
        ReturnedProfile(c) =>
            /\ ~(Present(Out(c, "components")) /\ Present(Out(c, "summaryProfile")))
            /\ Careted(calls[c].symbol) =>
                 /\ Out(c, "summaryProfile") = Null
                 /\ Present(Out(c, "components"))
                      <=> Present(Field(Field(Payload(c), "components"), "components"))
            /\ ~Careted(calls[c].symbol) =>
                 /\ Out(c, "components") = Null
                 /\ Present(Out(c, "summaryProfile"))

C5_Witness ==
    \E c \in DOMAIN calls :
        /\ ReturnedProfile(c)
        /\ calls[c].symbol = "^GSPC"
        /\ Field(Payload(c), "components") = Obj([components |-> Null])
        /\ Out(c, "components") = Null
        /\ Out(c, "summaryProfile") = Null

(***************************************************************************)
(* C6, C7, C10                                                             *)
(***************************************************************************)
\* the output field of resolveQuote that carries each field of PriceFields
PriceOut ==
    <<"currentPrice", "dayHighPrice", "dayLowPrice", "openPrice", "volume",
      "priceChange", "priceChangePercentage", "previousClose", "marketCap">>

\* the fields of PriceFields formatted to the resolved precision
PriceFormatted == {1, 2, 3, 4, 6, 8}

\* the fields of DetailFields formatted to the resolved precision, and the
\* other ones read through `raw`
DetailFormatted == {1, 2, 3, 4, 5, 6, 9}
DetailPercent == {7, 10}

\* the output of resolveProfile that carries field f of DetailFields
DetailOut(c, f) ==
    LET detail == Out(c, "summaryDetail") IN
    CASE f = 1 -> Field(Field(detail, "priceHistory"), "beta")
      [] f \in 2..5 -> Field(Field(detail, "priceHistory"), DetailFields[f])
      [] f = 6 -> Field(Field(detail, "dividend"), "rate")
      [] f = 7 -> Field(Field(detail, "dividend"), "yield")
      [] f = 8 -> Field(Field(detail, "dividend"), "exDate")
      [] f = 9 -> Field(Field(detail, "dividend"), "trailingAnnualRate")
      [] f = 10 -> Field(Field(detail, "dividend"), "trailingAnnualYield")

\* the number of characters of s after its decimal point
FractionLength(s) ==
    LET dots == {i \in 1..Len(s) : SubSeq(s, i, i) = "."} IN
    IF dots = {} THEN 0 ELSE Len(s) - (CHOOSE i \in dots : TRUE)

\* the integer the digits of s spell, sign and decimal point left out
RECURSIVE DigitsValue(_)
DigitsValue(s) ==
    IF s = "" THEN 0
    ELSE LET ch == SubSeq(s, Len(s), Len(s))
             rest == DigitsValue(SubSeq(s, 1, Len(s) - 1))
         IN IF ch \in {"-", "."} THEN rest
            ELSE 10 * rest + (CHOOSE d \in 0..9 : ToString(d) = ch)

\* s is k / 1000 in decimal with exactly p digits after the point: no other
\* number of p decimals is nearer to k / 1000
FormatsTo(s, k, p) ==
    /\ FractionLength(s) = p
    /\ (SubSeq(s, 1, 1) = "-") = (k < 0)
    /\ 2 * Abs(Scale * DigitsValue(s) - Abs(k) * Pow10(p)) <= Scale

\* the precision a priceHint stands for: its raw value, 2 without one
HintPrecision(hint) == IF hint = Undef THEN 2 ELSE hint.f.raw.n \div Scale

RawOf(module, name) == Field(Field(module, name), "raw")

\* C7: resolveQuote (which reports it as priceDecimals) and the
\* summaryDetail of resolveProfile use as precision the raw value of their
\* own payload's priceHint, and 2 when there is none; every price field of
\* the record that is formatted to a precision has that number of decimals.
C7_OnePrecisionPerRecord ==
    \A c \in DOMAIN calls :
        /\ Done(c) /\ calls[c].kind = "quote" /\ Succeeded(c)
             /\ Field(Field(Payload(c), "price"), "priceHint") \in PriceHints =>
               LET price == Field(Payload(c), "price")
                   p == HintPrecision(Field(price, "priceHint"))
               IN /\ Out(c, "priceDecimals") = Whole(p)
                  /\ \A f \in PriceFormatted :
                        Out(c, PriceOut[f]) # Null =>
                            /\ Out(c, PriceOut[f]).t = "string"
                            /\ FormatsTo(Out(c, PriceOut[f]).s,
                                         RawOf(price, PriceFields[f]).n, p)
        /\ ReturnedProfile(c)
             /\ Field(Field(Payload(c), "summaryDetail"), "priceHint") \in PriceHints =>
               LET detail == Field(Payload(c), "summaryDetail")
                   p == HintPrecision(Field(detail, "priceHint"))
               IN \A f \in DetailFormatted :
                     DetailOut(c, f) # Null =>
                         /\ DetailOut(c, f).t = "string"
                         /\ FormatsTo(DetailOut(c, f).s, RawOf(detail, DetailFields[f]).n, p)

\* the scenario of the specification: no priceHint, raw 123.456
C7_Witness ==
    \E c \in DOMAIN calls :
        /\ Done(c) /\ calls[c].kind = "quote" /\ Succeeded(c)
        /\ Field(Field(Payload(c), "price"), "priceHint") = Undef
        /\ RawOf(Field(Payload(c), "price"), "regularMarketPrice") = Num(123456)
        /\ Out(c, "priceDecimals") = Whole(2)
        /\ Out(c, "currentPrice") = Str("123.46")

QuoteTextOf(payload) == JsonText(quoteSummaryDoc(Null, Arr(<<Obj([price |-> payload])>>)))

ProfileTextOf(detail) ==
    JsonText(quoteSummaryDoc(Null,
        Arr(<<profilePayload(detail, Obj([components |-> Arr(<<>>)]), Obj(ProfileBase))>>)))

Answered(c, kind, text) ==
    /\ Done(c)
    /\ calls[c].kind = kind
    /\ calls[c].response.got = "text"
    /\ calls[c].response.text = text

\* C6 as claimed: wherever resolveQuote or resolveProfile reads the raw value
\* of a {raw, fmt} field, a field that is absent or whose raw is missing or
\* no number comes out as null, and the call does not fail; a numeric raw of
\* a precision-formatted field comes out formatted to the precision.
C6_RawRuleEverywhere ==
    \A c \in DOMAIN calls :
        /\ \A f \in AllPrice, d \in Degenerate :
              Answered(c, "quote",
                       QuoteTextOf(pricePayload(PriceNames, Undef, AllPrice, <<f, d>>))) =>
                  Succeeded(c) /\ Out(c, PriceOut[f]) = Null
        /\ \A f \in DetailFormatted \cup DetailPercent, d \in Degenerate \cup {Undef} :
              Answered(c, "profile", ProfileTextOf(detailPayload(Undef, <<f, d>>))) =>
                  Succeeded(c) /\ DetailOut(c, f) = Null
        /\ \A h \in PriceHints :
              /\ Answered(c, "quote",
                          QuoteTextOf(pricePayload(PriceNames, h, AllPrice, <<>>))) =>
                    /\ Succeeded(c)
                    /\ \A f \in PriceFormatted :
                          /\ Out(c, PriceOut[f]).t = "string"
                          /\ FormatsTo(Out(c, PriceOut[f]).s, PriceRaws[f], HintPrecision(h))
              /\ Answered(c, "profile", ProfileTextOf(detailPayload(h, <<>>))) =>
                    /\ Succeeded(c)
                    /\ \A f \in DetailFormatted :
                          /\ DetailOut(c, f).t = "string"
                          /\ FormatsTo(DetailOut(c, f).s, DetailRaws[f], HintPrecision(h))

\* C10 as claimed: each price field of resolveQuote's record is null exactly
\* when its own source field is not in the response, whichever of the other
\* source fields are there, and the call returns a record in every case.
C10_IndependentlyOptional ==
    \A c \in DOMAIN calls :
        \A present \in SUBSET AllPrice :
            Answered(c, "quote",
                     QuoteTextOf(pricePayload(PriceNames, Undef, present, <<>>))) =>
                /\ Succeeded(c)
                /\ \A f \in AllPrice : (Out(c, PriceOut[f]) = Null) <=> (f \notin present)

(***************************************************************************)
(* C8                                                                      *)
(***************************************************************************)
\* what a call of `kind` on `symbol` settles with when it runs alone and its
\* request resolves with `text`
Alone(kind, symbol, text) ==
    CASE kind = "chart" -> chartThen(symbol, text).outcome
      [] kind = "quote" -> quoteThen(symbol, text).outcome
      [] kind = "profile" -> profileThen(symbol, Careted(symbol), text).outcome

C8_OwnOutcome ==
    \A c \in DOMAIN calls :
        Done(c) =>
            calls[c].outcome =
                IF calls[c].response.got = "text"
                THEN Alone(calls[c].kind, calls[c].symbol, calls[c].response.text)
                ELSE calls[c].response.reason

C8_NoInterference ==
    \A c \in DOMAIN calls, d \in DOMAIN calls :
        c # d /\ calls'[c] # calls[c] => calls'[d] = calls[d]

\* C8: with several calls in flight, in whatever order their requests
\* settle, each call settles with what it would settle with alone on its own
\* arguments and its own response, and a step of one call changes nothing of
\* another call.
C8_CallsIndependent == []C8_OwnOutcome /\ [][C8_NoInterference]_vars

C8_Witness ==
    /\ \A c \in 1..2 : ReturnedProfile(c)
    /\ calls[1].symbol = "^GSPC"
    /\ calls[2].symbol = "AAPL"
    /\ calls[1].response = calls[2].response
    /\ Present(Out(1, "components")) /\ Out(1, "summaryProfile") = Null
    /\ Out(2, "components") = Null /\ Present(Out(2, "summaryProfile"))
====
